---- MODULE Spec2Model ----
(***************************************************************************)
(* Model of SpotifyBlobDownloader (src/internet/spotifyblobdownloader.cpp). *)
(*                                                                         *)
(* The downloader is a QObject living in the GUI thread.  Its slots run to *)
(* completion one at a time, so every slot is one atomic action.  A reply  *)
(* changes its own state and emits its signal synchronously, so a network  *)
(* event and the slot it triggers form one step.  deleteLater() only posts *)
(* a deferred delete: events that are already queued are delivered before  *)
(* the object is destroyed, so the destruction is a separate action.       *)
(*                                                                         *)
(* Strings are sequences of tokens: the signature suffix is one token, so  *)
(* endsWith/remove work on the last token / on every occurrence of it.     *)
(* Directories are numbers: path_ is 0, the n-th directory made by         *)
(* Utilities::MakeTempDir is n.                                            *)
(***************************************************************************)
EXTENDS Integers, Sequences, FiniteSets, TLC

\* ---- bounds of the model ----
MaxStarts == 2          \* calls of Start() on one downloader
MaxBytes == 1           \* data one reply can receive, in units of 2^30 bytes

\* ---- constants of the program ----
kSignatureSuffix == ".sha1"
kBlobDownloadUrl == "http://spotify.clementine-player.org/"
version_ == "version"
path_ == 0

\* File contents.  A short write leaves Truncated; the server sends body 1
\* for an artifact and, as blob.sha1, the signature of one of Bodies: the
\* signature of the blob it sends or the signature of other bytes.
Truncated == 0
Bodies == {1, 2}
SigOf(m) == m + 10

\* ---- QString / QUrl helpers ----
Range(s) == {s[i] : i \in 1..Len(s)}

endsWith(s, suffix) == Len(s) > 0 /\ s[Len(s)] = suffix

remove(s, token) == SelectSeq(s, LAMBDA t : t # token)

filenames == << <<"blob">>, <<"blob">> \o <<kSignatureSuffix>>, <<"libspotify.so.8">> >>

Url(filename) == <<kBlobDownloadUrl, version_, "/", filename>>

\* reply->url().path().section('/', -1, -1)
UrlFilename(url) == url[Len(url)]

\* ---- 32-bit int accumulators of ReplyProgress ----
\* Byte counts are in units of 2^30 bytes, so an int (range -2^31..2^31-1)
\* holds -2..1 units and a conversion to int is taken modulo 4 units.
ToInt(x) ==
  LET m == x % 4
  IN IF m >= 2 THEN m - 4 ELSE m

VARIABLES
  alive,          \* the downloader object exists
  deletePending,  \* deleteLater() was called, the deferred delete is queued
  replies_,       \* QList<QNetworkReply*> replies_, as reply ids
  reply,          \* the QNetworkReply objects that exist, by id
  startCount,     \* calls of Start() so far; the number of the current batch
  keyLoadable,    \* the embedded public key parses (fixed for the process)
  dirs,           \* directories that exist on disk
  files,          \* files on disk: [dir, name, data]
  tempCount,      \* temporary directories made so far
  reports,        \* terminal reports shown/emitted, in order
  progressArgs,   \* <<value, maximum>> last given to the progress dialog
  cancelled,      \* "no"; "inflight": Cancel() ran while a download was still
                  \* in flight; "idle": Cancel() ran, but only at other times
  staleHandled,   \* a slot ran for a reply that is not of the current batch
  staging         \* what the staging phase of the current batch did

vars == <<alive, deletePending, replies_, reply, startCount, keyLoadable,
          dirs, files, tempCount, reports, progressArgs, cancelled,
          staleHandled, staging>>

NoStaging ==
  [entered |-> 0, unfinished |-> 0, errored |-> 0, tmp |-> 0, steps |-> <<>>,
   verified |-> <<>>, moved |-> <<>>, bodies |-> <<>>, ioOk |-> TRUE,
   outcome |-> "none"]

Init ==
  /\ alive = TRUE
  /\ deletePending = FALSE
  /\ replies_ = <<>>
  /\ reply = <<>>
  /\ startCount = 0
  /\ keyLoadable \in BOOLEAN
  /\ dirs = {}
  /\ files = {}
  /\ tempCount = 0
  /\ reports = <<>>
  /\ progressArgs = <<0, 0>>
  /\ cancelled = "no"
  /\ staleHandled = FALSE
  /\ staging = NoStaging

\* ---- QObject lifetime ----

\* Variant: the list is cleared, the reply objects are left alone.
qDeleteAll_Leak(rep, rs) == rep

\* qDeleteAll(replies_): the reply objects are destroyed, which also removes
\* their connections, so a destroyed reply emits nothing any more.
qDeleteAll(rep, rs) == [id \in (DOMAIN rep) \ Range(rs) |-> rep[id]]

\* ---- Start() ----
\* The Content-Length headers the server sends for the three files: a size
\* in units of 2^30 bytes, or NoHeader when the header is absent.
NoHeader == -1

ContentLengths ==
  {<<NoHeader, NoHeader, NoHeader>>, <<MaxBytes, NoHeader, NoHeader>>,
   <<MaxBytes, MaxBytes, MaxBytes>>}

NewReply(i, b, bodies, lengths) ==
  [url |-> Url(filenames[i]), batch |-> b, finished |-> FALSE, error |-> "NoError",
   connected |-> TRUE, bytes |-> 0, contentLength |-> lengths[i], body |-> bodies[i]]

NewIds(b) == [i \in 1..Len(filenames) |-> (b - 1) * Len(filenames) + i]

StartReplies(rep, rs, b, bodies, lengths) ==
  LET kept == qDeleteAll(rep, rs)
      ids == NewIds(b)
  IN [id \in (DOMAIN kept) \cup Range(ids) |->
        IF id \in Range(ids) THEN NewReply(id - (b - 1) * Len(filenames), b, bodies, lengths)
        ELSE kept[id]]

\* The caller starts a downloader that has neither reported nor been
\* cancelled: once deleteLater() is pending the object is about to go away.
Start ==
  /\ alive /\ ~deletePending
  /\ startCount < MaxStarts
  /\ \E signed \in Bodies, lengths \in ContentLengths :
       reply' = StartReplies(reply, replies_, startCount + 1,
                             <<1, SigOf(signed), 1>>, lengths)
  /\ replies_' = NewIds(startCount + 1)
  /\ startCount' = startCount + 1
  /\ staging' = NoStaging
  /\ UNCHANGED <<alive, deletePending, keyLoadable, dirs, files, tempCount,
                 reports, progressArgs, cancelled, staleHandled>>

\* ---- ShowError(): stop every reply of replies_ ----
\* Variant: the replies are aborted but stay connected.
disconnect_Missing(r) == r

\* disconnect(reply, 0, this, 0)
disconnect(r) == [r EXCEPT !.connected = FALSE]

\* Variant: the replies are detached but not aborted.
abort_Missing(r) == r

\* QNetworkReply::abort(): an unfinished reply finishes with
\* OperationCanceledError; a finished one is left as it is.
abort(r) ==
  IF r.finished THEN r
  ELSE [r EXCEPT !.finished = TRUE, !.error = "OperationCanceledError"]

ShowErrorReplies(rep, rs) ==
  [id \in DOMAIN rep |-> IF id \in Range(rs) THEN abort(disconnect(rep[id])) ELSE rep[id]]

\* ---- ReplyFinished(): the checks before the staging phase ----
\* Variant: the error of the sender is not looked at.
ReplyHasError_Never(r) == FALSE

\* reply->error() != QNetworkReply::NoError
ReplyHasError(r) == r.error # "NoError"

\* Variant: one finished reply is enough.
AllFinished_Any(rep, rs) == \E i \in 1..Len(rs) : rep[rs[i]].finished

\* Variant: only the first reply of the list is asked.
AllFinished_FirstOnly(rep, rs) == rs # <<>> => rep[rs[1]].finished

\* foreach (reply, replies_) if (!reply->isFinished()) return;
AllFinished(rep, rs) == \A i \in 1..Len(rs) : rep[rs[i]].finished

\* ---- ReplyFinished(): the staging phase ----
\* Outcomes of the I/O calls of one staging phase: the index of the file whose
\* open for writing fails, the index of the file whose write is short, the
\* open for reading that fails, mkpath's result, the index of the file whose
\* rename fails.  0 / "none" / TRUE: the call succeeds.
\* A call that is never reached has no outcome: the writes from the failing
\* open on, the reads, mkpath and the renames after a failed open, mkpath
\* and the renames after a failed read, the rename of a signature file.
Envs ==
  {e \in [openFail : 0..Len(filenames), shortWrite : 0..Len(filenames),
          readFail : {"none", "actual", "signature"}, mkpathOk : BOOLEAN,
          renameFail : 0..Len(filenames)] :
     /\ e.openFail # 0 =>
          /\ e.shortWrite < e.openFail
          /\ e.readFail = "none" /\ e.mkpathOk /\ e.renameFail = 0
     /\ e.readFail # "none" => e.mkpathOk /\ e.renameFail = 0
     /\ e.renameFail # 0 => ~endsWith(filenames[e.renameFail], kSignatureSuffix)}

GoodEnv ==
  [openFail |-> 0, shortWrite |-> 0, readFail |-> "none", mkpathOk |-> TRUE,
   renameFail |-> 0]

Path(dir, name) == [dir |-> dir, name |-> name]

Exists(fs, p) == \E f \in fs : f.dir = p.dir /\ f.name = p.name

Data(fs, p) == (CHOOSE f \in fs : f.dir = p.dir /\ f.name = p.name).data

ReplyNames(rep, rs) == [i \in 1..Len(rs) |-> UrlFilename(rep[rs[i]].url)]

\* Files opened for writing before the loop of lines 103-120 stops.
Opened(n, e) == IF e.openFail \in 1..n THEN e.openFail - 1 ELSE n

\* file.write(reply->readAll()); the result of write() is not looked at.
Written(body, short) == IF short THEN Truncated ELSE body

WriteFiles(rep, rs, tmp, e) ==
  {[dir |-> tmp, name |-> UrlFilename(rep[rs[i]].url),
    data |-> Written(rep[rs[i]].body, e.shortWrite = i)] :
     i \in 1..Opened(Len(rs), e)}

\* Variant: the suffix test never matches.
IsSignature_Never(name) == FALSE

IsSignature(name) == endsWith(name, kSignatureSuffix)

\* Variant: no path is appended to the list of signatures.
Signatures_Empty(rep, rs, tmp) == <<>>

\* if (path.endsWith(kSignatureSuffix)) signatures << path;
Signatures(rep, rs, tmp) ==
  SelectSeq([i \in 1..Len(rs) |-> Path(tmp, UrlFilename(rep[rs[i]].url))],
            LAMBDA p : IsSignature(p.name))

\* Variant: the conversion result is not looked at.
KeyLoadFails_Ignored(loadable) == FALSE

\* QCA::ConvertGood != conversion_result
KeyLoadFails(loadable) == ~loadable

\* key.verifyMessage(actual, signature, EMSA3_SHA1) under the loaded key.
verifyMessage(actual, signature) == signature = SigOf(actual)

\* Variant: the negation is missing.
VerifyFails_Inverted(valid) == valid

\* if (!key.verifyMessage(...)) { ShowError(...); return; }
VerifyFails(valid) == ~valid

RECURSIVE VerifySignatures(_, _, _)
VerifySignatures(sigs, fs, e) ==
  IF sigs = <<>> THEN [status |-> "ok", checked |-> <<>>]
  ELSE
    LET signature_filename == Head(sigs)
        filename == [signature_filename EXCEPT
                       !.name = remove(signature_filename.name, kSignatureSuffix)]
    IN
      IF ~Exists(fs, filename) \/ e.readFail = "actual"
        THEN [status |-> "unreadable", checked |-> <<>>]
      ELSE IF ~Exists(fs, signature_filename) \/ e.readFail = "signature"
        THEN [status |-> "unreadable", checked |-> <<>>]
      ELSE
        LET valid == verifyMessage(Data(fs, filename), Data(fs, signature_filename))
            this == <<[name |-> filename.name, valid |-> valid]>>
        IN IF VerifyFails(valid) THEN [status |-> "invalid", checked |-> this]
           ELSE LET rest == VerifySignatures(Tail(sigs), fs, e)
                IN [status |-> rest.status, checked |-> this \o rest.checked]

\* QFile::rename(source_path, dest_path)
RenameOk(fs, ds, src, dst, fails) ==
  /\ ~fails
  /\ Exists(fs, src)
  /\ dst.dir \in ds
  /\ ~Exists(fs, dst)

Rename(fs, src, dst) ==
  {f \in fs : ~(f.dir = src.dir /\ f.name = src.name)}
    \cup {[dir |-> dst.dir, name |-> dst.name, data |-> Data(fs, src)]}

\* Variant: after a failed rename the loop goes on with the next file.
RECURSIVE MoveFiles_Continue(_, _, _, _, _, _)
MoveFiles_Continue(names, i, tmp, fs, ds, e) ==
  IF i > Len(names) THEN [ok |-> TRUE, files |-> fs, moved |-> <<>>]
  ELSE IF IsSignature(names[i]) THEN MoveFiles_Continue(names, i + 1, tmp, fs, ds, e)
  ELSE IF ~RenameOk(fs, ds, Path(tmp, names[i]), Path(path_, names[i]), e.renameFail = i)
    THEN [MoveFiles_Continue(names, i + 1, tmp, fs, ds, e) EXCEPT !.ok = FALSE]
  ELSE
    LET r == MoveFiles_Continue(names, i + 1, tmp,
                                Rename(fs, Path(tmp, names[i]), Path(path_, names[i])), ds, e)
    IN [r EXCEPT !.moved = <<names[i]>> \o r.moved]

RECURSIVE MoveFiles(_, _, _, _, _, _)
MoveFiles(names, i, tmp, fs, ds, e) ==
  IF i > Len(names) THEN [ok |-> TRUE, files |-> fs, moved |-> <<>>]
  ELSE IF IsSignature(names[i]) THEN MoveFiles(names, i + 1, tmp, fs, ds, e)
  ELSE IF ~RenameOk(fs, ds, Path(tmp, names[i]), Path(path_, names[i]), e.renameFail = i)
    THEN [ok |-> FALSE, files |-> fs, moved |-> <<>>]
  ELSE
    LET r == MoveFiles(names, i + 1, tmp,
                       Rename(fs, Path(tmp, names[i]), Path(path_, names[i])), ds, e)
    IN [r EXCEPT !.moved = <<names[i]>> \o r.moved]

\* Variant: the temporary directory is left on disk.
RemoveRecursive_Missing(fs, ds, dir) == [files |-> fs, dirs |-> ds]

\* Utilities::RemoveRecursive(temp_directory)
RemoveRecursive(fs, ds, dir) ==
  [files |-> {f \in fs : f.dir # dir}, dirs |-> ds \ {dir}]

Repeat(x, n) == [i \in 1..n |-> x]

\* Lines 98-177: what the staging phase does to the disk and which report
\* ends it.  report "Failure" is a call of ShowError, "Success" a call of
\* EmitFinished, "none" a plain return.
StagingPhase(rep, rs, tmp, fs, ds, loadable, e) ==
  LET names == ReplyNames(rep, rs)
      n == Len(rs)
      fs1 == fs \cup WriteFiles(rep, rs, tmp, e)
      ds1 == ds \cup {tmp}
      wrote == <<"mktemp">> \o Repeat("write", Opened(n, e))
      v == VerifySignatures(Signatures(rep, rs, tmp), fs1, e)
      ds2 == IF e.mkpathOk THEN ds1 \cup {path_} ELSE ds1
      m == MoveFiles(names, 1, tmp, fs1, ds2, e)
      base == [files |-> fs1, dirs |-> ds1, report |-> "Failure", steps |-> wrote,
               verified |-> <<>>, moved |-> <<>>, outcome |-> "open"]
  IN
    IF Opened(n, e) < n THEN base
    ELSE IF KeyLoadFails(loadable)
      THEN [base EXCEPT !.steps = wrote \o <<"key">>, !.outcome = "key"]
    ELSE IF v.status = "unreadable"
      THEN [base EXCEPT !.report = "none", !.verified = v.checked,
              !.steps = wrote \o <<"key">> \o Repeat("verify", Len(v.checked)),
              !.outcome = "unreadable"]
    ELSE IF v.status = "invalid"
      THEN [base EXCEPT !.verified = v.checked,
              !.steps = wrote \o <<"key">> \o Repeat("verify", Len(v.checked)),
              !.outcome = "invalid"]
    ELSE IF ~m.ok
      THEN [base EXCEPT !.files = m.files, !.dirs = ds2, !.verified = v.checked,
              !.moved = m.moved,
              !.steps = wrote \o <<"key">> \o Repeat("verify", Len(v.checked))
                          \o <<"mkpath">> \o Repeat("move", Len(m.moved)),
              !.outcome = "rename"]
    ELSE [files |-> RemoveRecursive(m.files, ds2, tmp).files,
          dirs |-> RemoveRecursive(m.files, ds2, tmp).dirs,
          report |-> "Success",
          steps |-> wrote \o <<"key">> \o Repeat("verify", Len(v.checked))
                      \o <<"mkpath">> \o Repeat("move", Len(m.moved)) \o <<"rmtemp">>,
          verified |-> v.checked, moved |-> m.moved, outcome |-> "installed"]

Unfinished(rep, rs) == {i \in 1..Len(rs) : ~rep[rs[i]].finished}

Errored(rep, rs) == {i \in 1..Len(rs) : rep[rs[i]].finished /\ rep[rs[i]].error # "NoError"}

\* The slot ReplyFinished() with sender id; rep is the replies after the
\* sender has become finished.
ReplyFinished(id, rep) ==
  IF ReplyHasError(rep[id]) THEN
    \* ShowError(reply->errorString())
    /\ reply' = ShowErrorReplies(rep, replies_)
    /\ reports' = Append(reports, "Failure")
    /\ deletePending' = TRUE
    /\ UNCHANGED <<dirs, files, tempCount, staging>>
  ELSE IF ~AllFinished(rep, replies_) THEN
    /\ reply' = rep
    /\ UNCHANGED <<reports, deletePending, dirs, files, tempCount, staging>>
  ELSE
    \E e \in Envs :
    \E temp_directory \in {tempCount + 1} :
    \E s \in {StagingPhase(rep, replies_, temp_directory, files, dirs, keyLoadable, e)} :
      /\ tempCount' = temp_directory
      /\ files' = s.files
      /\ dirs' = s.dirs
      /\ reply' = IF s.report = "Failure" THEN ShowErrorReplies(rep, replies_) ELSE rep
      /\ reports' = IF s.report = "none" THEN reports ELSE Append(reports, s.report)
      /\ deletePending' = (deletePending \/ s.report # "none")
      /\ staging' = [entered |-> staging.entered + 1,
                     unfinished |-> Cardinality(Unfinished(rep, replies_)),
                     errored |-> Cardinality(Errored(rep, replies_)),
                     tmp |-> temp_directory, steps |-> s.steps,
                     verified |-> s.verified, moved |-> s.moved,
                     bodies |-> [i \in 1..Len(replies_) |-> rep[replies_[i]].body],
                     ioOk |-> (e = GoodEnv), outcome |-> s.outcome]

\* A reply finishes, with or without a transport error, and emits finished().
FinishedSignal ==
  \E id \in DOMAIN reply, err \in {"NoError", "TransportError"} :
    /\ ~reply[id].finished
    /\ LET rep == [reply EXCEPT ![id].finished = TRUE, ![id].error = err]
           delivered == alive /\ reply[id].connected
       IN
         /\ staleHandled' = (staleHandled \/ (delivered /\ reply[id].batch # startCount))
         /\ IF delivered THEN ReplyFinished(id, rep)
            ELSE /\ reply' = rep
                 /\ UNCHANGED <<reports, deletePending, dirs, files, tempCount, staging>>
    /\ UNCHANGED <<alive, replies_, startCount, keyLoadable, progressArgs, cancelled>>

\* ---- ReplyProgress() ----
\* reply->rawHeader("Content-Length").toInt(): 0 when the header is absent
\* or its value is not in the range of int.
HeaderToInt(h) == IF h = NoHeader \/ h # ToInt(h) THEN 0 ELSE h

\* int progress, total: every += is converted back to int.
RECURSIVE SumInt(_, _, _)
SumInt(rep, rs, field) ==
  IF rs = <<>> THEN 0
  ELSE ToInt(SumInt(rep, SubSeq(rs, 1, Len(rs) - 1), field)
               + IF field = "bytes" THEN rep[rs[Len(rs)]].bytes
                 ELSE HeaderToInt(rep[rs[Len(rs)]].contentLength))

ReplyProgress(rep) ==
  progressArgs' = <<SumInt(rep, replies_, "bytes"), SumInt(rep, replies_, "total")>>

\* A reply receives data and emits downloadProgress().
ProgressSignal ==
  \E id \in DOMAIN reply :
    /\ ~reply[id].finished
    /\ reply[id].bytes < MaxBytes
    /\ LET rep == [reply EXCEPT ![id].bytes = @ + 1]
           delivered == alive /\ reply[id].connected
       IN
         /\ reply' = rep
         /\ staleHandled' = (staleHandled \/ (delivered /\ reply[id].batch # startCount))
         /\ IF delivered THEN ReplyProgress(rep) ELSE UNCHANGED progressArgs
    /\ UNCHANGED <<alive, deletePending, replies_, startCount, keyLoadable, dirs,
                   files, tempCount, reports, cancelled, staging>>

\* ---- Cancel(): the progress dialog's canceled() signal ----
Cancel ==
  /\ alive
  /\ deletePending' = TRUE
  /\ cancelled' = IF cancelled = "inflight" \/ Unfinished(reply, replies_) # {}
                   THEN "inflight" ELSE "idle"
  /\ UNCHANGED <<alive, replies_, reply, startCount, keyLoadable, dirs, files,
                 tempCount, reports, progressArgs, staleHandled, staging>>

\* ---- ~SpotifyBlobDownloader(): the deferred delete is processed ----
Destroy ==
  /\ alive /\ deletePending
  /\ reply' = qDeleteAll(reply, replies_)
  /\ replies_' = <<>>
  /\ alive' = FALSE
  /\ UNCHANGED <<deletePending, startCount, keyLoadable, dirs, files, tempCount,
                 reports, progressArgs, cancelled, staleHandled, staging>>

Next == Start \/ FinishedSignal \/ ProgressSignal \/ Cancel \/ Destroy

Spec == Init /\ [][Next]_vars

\* ======================= properties =======================

DestFiles == {f \in files : f.dir = path_}

DestNames == {f.name : f \in DestFiles}

TempFiles(tmp) == {f \in files : f.dir = tmp}

\* C1: while any task of the current batch is unfinished the staging phase
\* of the batch has not started, and whenever it started, no task of the
\* batch was unfinished at that moment.
C1_BarrierBeforeStaging ==
  /\ Unfinished(reply, replies_) # {} =>
       staging.entered = 0 /\ staging.tmp = 0 /\ staging.steps = <<>>
  /\ staging.entered > 0 => staging.unfinished = 0

\* The staging phase ran once, after all three downloads of the batch had
\* finished, and made its temporary directory.
C1_Witness ==
  /\ staging.entered = 1
  /\ staging.unfinished = 0
  /\ Len(staging.bodies) = Len(filenames)
  /\ "mktemp" \in Range(staging.steps)

\* C2: when a signature did not verify against its artifact, Failure is the
\* report of the attempt and no file is in the destination directory.
C2_InvalidSignatureFails ==
  (\E i \in 1..Len(staging.verified) : ~staging.verified[i].valid) =>
     /\ reports = <<"Failure">>
     /\ DestFiles = {}

\* blob.sha1 signs other bytes than blob: the verification failed.
C2_Witness ==
  /\ staging.outcome = "invalid"
  /\ staging.bodies[2] # SigOf(staging.bodies[1])
  /\ staging.verified = <<[name |-> <<"blob">>, valid |-> FALSE]>>
  /\ reports = <<"Failure">>

\* C3: when the embedded public key cannot be loaded, no file is ever in
\* the destination directory.
C3_NoInstallWithoutKey == ~keyLoadable => DestFiles = {} /\ staging.moved = <<>>

\* The key load failed in an attempt whose blob.sha1 validly signs blob.
C3_Witness ==
  /\ ~keyLoadable
  /\ staging.outcome = "key"
  /\ staging.bodies[2] = SigOf(staging.bodies[1])
  /\ reports = <<"Failure">>

\* C4: after a terminal report of an attempt that made a StagingArea, the
\* StagingArea no longer exists on disk.
C4_StagingAreaRemoved ==
  (reports # <<>> /\ staging.entered > 0) =>
     staging.tmp \notin dirs /\ TempFiles(staging.tmp) = {}

\* C5: an attempt that is not cancelled never has more than one terminal
\* report, and has exactly one once its staging phase has run.
C5_ExactlyOneReport ==
  cancelled = "no" =>
     /\ Len(reports) <= 1
     /\ staging.entered > 0 => Len(reports) = 1

\* C6: after a cancel request made while a download was still in flight
\* there is no report and the destination directory is not touched.
C6_CancelSilence ==
  cancelled = "inflight" =>
     reports = <<>> /\ DestFiles = {} /\ path_ \notin dirs

\* A reply that was unfinished finishes with a transport error and its
\* finished() signal reaches the slot.
TransportErrorStep ==
  \E id \in DOMAIN reply :
    /\ alive /\ reply[id].connected /\ ~reply[id].finished
    /\ id \in DOMAIN reply'
    /\ reply'[id].finished /\ reply'[id].error = "TransportError"

\* C7: the step that handles a completion event with a transport error
\* detaches and aborts every reply of the batch, reports Failure and does
\* not enter the staging phase, whatever the state of the siblings.
C7_TransportErrorFailsAtOnce ==
  [][TransportErrorStep =>
       /\ \A i \in 1..Len(replies_) :
            /\ ~reply'[replies_[i]].connected
            /\ reply'[replies_[i]].finished
       /\ reports' = Append(reports, "Failure")
       /\ deletePending'
       /\ staging' = staging /\ tempCount' = tempCount
       /\ files' = files /\ dirs' = dirs]_vars

\* One download failed while a sibling was in flight: the sibling was
\* aborted, Failure was reported and the staging phase never ran.
C7_Witness ==
  /\ reports = <<"Failure">>
  /\ staging.entered = 0 /\ tempCount = 0
  /\ \E i, j \in 1..Len(replies_) :
       /\ reply[replies_[i]].error = "TransportError"
       /\ reply[replies_[j]].error = "OperationCanceledError"
       /\ ~reply[replies_[j]].connected

\* The staging phase ran on three error-free downloads, the key loads,
\* blob.sha1 signs blob and every file operation succeeded.
HappyPath ==
  /\ staging.entered > 0
  /\ staging.errored = 0 /\ staging.unfinished = 0
  /\ Len(staging.bodies) = Len(filenames)
  /\ keyLoadable
  /\ staging.bodies[2] = SigOf(staging.bodies[1])
  /\ staging.ioOk

\* C8: on the happy path the destination holds blob and libspotify.so.8
\* and not blob.sha1, Success is the one report, the StagingArea is gone.
C8_HappyPathInstalls ==
  HappyPath =>
     /\ DestNames = {filenames[1], filenames[3]}
     /\ \A f \in DestFiles : f.data = 1
     /\ reports = <<"Success">>
     /\ staging.tmp \notin dirs /\ TempFiles(staging.tmp) = {}

C8_Witness ==
  /\ HappyPath
  /\ staging.outcome = "installed"
  /\ staging.moved = <<filenames[1], filenames[3]>>

\* C9: no file whose name ends with the signature suffix is in the
\* destination directory or among the files the install loop moved.
C9_NoSignatureInstalled ==
  /\ \A f \in DestFiles : ~endsWith(f.name, kSignatureSuffix)
  /\ \A i \in 1..Len(staging.moved) : ~endsWith(staging.moved[i], kSignatureSuffix)

\* The install loop moved files of a batch whose signature file was staged.
C9_Witness ==
  /\ DestFiles # {}
  /\ staging.moved # <<>>
  /\ \E i \in 1..Len(staging.verified) :
       staging.verified[i] = [name |-> <<"blob">>, valid |-> TRUE]

\* C10: after Start() the tracked batch is exactly one reply per file of
\* the fixed list, all of the new batch, every reply of a prior batch is
\* destroyed, and no slot ever runs for a reply of a prior batch.
C10_RestartDiscardsPriorBatch ==
  /\ (alive /\ startCount > 0) =>
       /\ Len(replies_) = Len(filenames)
       /\ \A i \in 1..Len(replies_) :
            /\ replies_[i] \in DOMAIN reply
            /\ reply[replies_[i]].batch = startCount
            /\ UrlFilename(reply[replies_[i]].url) = filenames[i]
       /\ \A i, j \in 1..Len(replies_) : i # j => replies_[i] # replies_[j]
  /\ DOMAIN reply = Range(replies_)
  /\ ~staleHandled

\* Start() ran a second time while the first batch had not finished, and
\* events of the second batch were handled after it.
C10_Witness ==
  /\ startCount = 2
  /\ tempCount = 0
  /\ alive
  /\ \E i \in 1..Len(replies_) :
       reply[replies_[i]].finished /\ reply[replies_[i]].bytes > 0

\* A progress event of the current batch has been handled: data only
\* arrives in ProgressSignal, which runs the slot in the same step.
ProgressedInAttempt ==
  alive /\ \E i \in 1..Len(replies_) : reply[replies_[i]].bytes > 0

\* A step in which a reply receives data and ReplyProgress() reports.
ProgressStep ==
  /\ alive
  /\ \E id \in DOMAIN reply :
       /\ reply[id].connected
       /\ id \in DOMAIN reply'
       /\ reply'[id].bytes > reply[id].bytes

\* C11: within one attempt the bytes-received value given to the progress
\* dialog by a progress event is not lower than the value given by the
\* progress event before it.
C11_ProgressMonotone ==
  [][(ProgressStep /\ ProgressedInAttempt /\ startCount' = startCount) =>
        progressArgs'[1] >= progressArgs[1]]_vars

\* Sums over the batch in unbounded integers, an absent header counted as 0.
RECURSIVE SumBytes(_, _)
SumBytes(rep, rs) ==
  IF rs = <<>> THEN 0 ELSE rep[Head(rs)].bytes + SumBytes(rep, Tail(rs))

RECURSIVE SumTotals(_, _)
SumTotals(rep, rs) ==
  IF rs = <<>> THEN 0
  ELSE (IF rep[Head(rs)].contentLength = NoHeader THEN 0
        ELSE rep[Head(rs)].contentLength) + SumTotals(rep, Tail(rs))

\* C17: the pair given to the progress dialog by the last progress event is
\* (sum of the bytes received, sum of the declared totals) over the batch.
C17_ProgressPairExact ==
  ProgressedInAttempt =>
     progressArgs = <<SumBytes(reply, replies_), SumTotals(reply, replies_)>>

\* C12: Success is reported only if every step of the staging phase went
\* without failure: every I/O call succeeded, every staged file was written
\* in full, every signature verified, the destination directory exists and
\* holds every non-signature file with the bytes that were downloaded.
C12_SuccessOnlyIfAllStepsOk ==
  "Success" \in Range(reports) =>
     /\ staging.ioOk
     /\ staging.verified # <<>>
     /\ \A i \in 1..Len(staging.verified) : staging.verified[i].valid
     /\ path_ \in dirs
     /\ DestFiles = {[dir |-> path_, name |-> filenames[i], data |-> staging.bodies[i]] :
                       i \in {j \in 1..Len(filenames) : ~IsSignature(filenames[j])}}

\* The files of the fixed list that are not signature files, in list order.
NonSignatureNames == SelectSeq(filenames, LAMBDA f : ~endsWith(f, kSignatureSuffix))

\* C13: when a rename of the install loop fails, Failure is the report, the
\* files moved are those before the failing one in batch order and they
\* stay in the destination, and no later file is there; a Failure for any
\* other reason leaves no file in the destination.
C13_MoveFailureStopsLoop ==
  /\ staging.outcome = "rename" =>
       /\ reports = <<"Failure">>
       /\ Len(staging.moved) < Len(NonSignatureNames)
       /\ staging.moved = SubSeq(NonSignatureNames, 1, Len(staging.moved))
       /\ DestNames = Range(staging.moved)
       /\ \A i \in (Len(staging.moved) + 1)..Len(NonSignatureNames) :
            Exists(files, Path(staging.tmp, NonSignatureNames[i]))
  /\ ("Failure" \in Range(reports) /\ staging.outcome # "rename") => DestFiles = {}

\* The rename of libspotify.so.8 failed after blob had been moved.
C13_Witness ==
  /\ staging.outcome = "rename"
  /\ staging.moved = <<filenames[1]>>
  /\ DestNames = {filenames[1]}
  /\ reports = <<"Failure">>

\* Every reply of the current batch has finished without error.
AllCompletedOk ==
  /\ alive
  /\ replies_ # <<>>
  /\ \A i \in 1..Len(replies_) :
       reply[replies_[i]].finished /\ reply[replies_[i]].error = "NoError"

\* C14: the staging phase of a batch is entered at most once, and it has
\* been entered once every task of the batch has completed without error.
C14_StagingExactlyOnce ==
  /\ staging.entered <= 1
  /\ AllCompletedOk => staging.entered = 1

\* All three downloads completed and the staging phase ran once, ending
\* without a report, so that the replies stayed connected afterwards.
C14_Witness ==
  /\ AllCompletedOk
  /\ staging.entered = 1
  /\ staging.outcome = "unreadable"
  /\ \A i \in 1..Len(replies_) : reply[replies_[i]].connected

\* C15: the staging phase is entered only when no task of the batch has
\* finished with an error, and a batch with a task that ended with a
\* transport error never enters it.
C15_NoStagingAfterError ==
  /\ staging.entered > 0 => staging.errored = 0
  /\ (\E i \in 1..Len(replies_) : reply[replies_[i]].error = "TransportError") =>
       /\ staging.entered = 0
       /\ TempFiles(tempCount + 1) = {} /\ DestFiles = {}

\* The barrier was evaluated by the last of three error-free completions.
C15_Witness ==
  /\ staging.entered = 1
  /\ staging.errored = 0
  /\ Len(replies_) = Len(filenames)
  /\ Errored(reply, replies_) = {}
  /\ Unfinished(reply, replies_) = {}

\* Position of a step in the order of the staging phase.
StepRank(step) ==
  CASE step = "mktemp" -> 1
    [] step = "write" -> 2
    [] step = "key" -> 3
    [] step = "verify" -> 4
    [] step = "mkpath" -> 5
    [] step = "move" -> 6
    [] step = "rmtemp" -> 7

Count(seq, x) == Cardinality({i \in 1..Len(seq) : seq[i] = x})

\* C16: the steps of the staging phase happen in the order write, key load,
\* verification, mkpath, move; the destination directory is made and files
\* are moved only after every file was staged, the key loaded and every
\* signature verified; whenever the destination holds a file, blob was
\* verified against blob.sha1 in the attempt.
C16_StagingOrder ==
  /\ \A i, j \in 1..Len(staging.steps) :
       i < j => StepRank(staging.steps[i]) <= StepRank(staging.steps[j])
  /\ (path_ \in dirs \/ DestFiles # {} \/ staging.moved # <<>>) =>
       /\ Count(staging.steps, "write") = Len(filenames)
       /\ Count(staging.steps, "key") = 1
       /\ keyLoadable
       /\ staging.verified # <<>>
       /\ \E i \in 1..Len(staging.verified) :
            staging.verified[i] = [name |-> filenames[1], valid |-> TRUE]
       /\ \A i \in 1..Len(staging.verified) : staging.verified[i].valid
       /\ staging.bodies[2] = SigOf(staging.bodies[1])

\* Both files were installed after the one verification of blob.
C16_Witness ==
  /\ DestNames = {filenames[1], filenames[3]}
  /\ staging.verified = <<[name |-> filenames[1], valid |-> TRUE]>>
  /\ staging.steps = <<"mktemp", "write", "write", "write", "key", "verify",
                       "mkpath", "move", "move", "rmtemp">>

\* C18: once Failure has been reported every reply of the batch is detached
\* and finished, and no later step changes the reports, the disk, the
\* staging phase, the progress values or any reply.
C18_NothingAfterFailure ==
  [][("Failure" \in Range(reports)) =>
       /\ \A i \in 1..Len(replies_) :
            ~reply[replies_[i]].connected /\ reply[replies_[i]].finished
       /\ reports' = reports
       /\ files' = files /\ dirs' = dirs /\ tempCount' = tempCount
       /\ staging' = staging
       /\ progressArgs' = progressArgs
       /\ staleHandled' = staleHandled
       /\ startCount' = startCount
       /\ \A id \in DOMAIN reply' : id \in DOMAIN reply /\ reply'[id] = reply[id]]_vars

\* Failure was reported by a transport error while siblings were in flight,
\* and the downloader was destroyed afterwards.
C18_Witness ==
  /\ reports = <<"Failure">>
  /\ staging.entered = 0
  /\ ~alive
  /\ DestFiles = {}

====
